---- MODULE Spec2Model ----
(***************************************************************************)
(* Broker Buddy (src/broker_buddy.py): a Streamlit script that sends a     *)
(* pasted call transcript to four chat-completion calls (compliance,       *)
(* sales coaching, CRM extraction, lender), keeps the four results in      *)
(* st.session_state.results and renders them into a PDF.                   *)
(*                                                                         *)
(* Texts are sequences of Unicode code points, so that startswith,         *)
(* json.loads, str.title, f-string formatting and encode('latin-1') are    *)
(* computed the way the script computes them.  The transcript is kept as   *)
(* its length only: the script looks at len(transcript) and otherwise      *)
(* pastes the transcript verbatim into the prompts.                        *)
(***************************************************************************)
EXTENDS Integers, Sequences, FiniteSets, TLC

VARIABLES
  api_key,         \* sidebar text_input value (line 29)
  transcript,      \* len() of the text_area value (line 38)
  openai_api_key,  \* openai.api_key (lines 14, 34)
  results,         \* st.session_state.results (lines 9-10, 211-216)
  pc,              \* "idle": script run finished; "call": blocked in ChatCompletion.create; "hung": blocked for good
  task,            \* the task whose call is in flight ("none" when pc = "idle")
  locals,          \* the variables compliance, sales, crm, lender of the current run (lines 200-209)
  calls,           \* requests handed to ChatCompletion.create during the current script run
  responses,       \* what the provider did with each of them, in order
  messages,        \* st.error / st.warning / st.success elements of the current script run
  status,          \* what the button branch of the current script run did (lines 191-226)
  pdf              \* what generate_pdf() returned to the current script run (line 250)

vars == <<api_key, transcript, openai_api_key, results, pc, task, locals, calls, responses, messages, status, pdf>>

----
\* Text constants of the script, as code points.

\* Literals of the script.

\* "sk-" (lines 31, 192)
API_KEY_PREFIX ==
  <<115, 107, 45>>

\* "Error in compliance analysis" (line 67)
ERR_COMPLIANCE ==
  <<69, 114, 114, 111, 114, 32, 105, 110, 32, 99, 111, 109, 112, 108, 105, 97, 110, 99, 101, 32, 97, 110, 97, 108, 121, 115, 105, 115>>

\* "Error in sales analysis" (line 92)
ERR_SALES ==
  <<69, 114, 114, 111, 114, 32, 105, 110, 32, 115, 97, 108, 101, 115, 32, 97, 110, 97, 108, 121, 115, 105, 115>>

\* "error" (line 117)
ERR_CRM_KEY ==
  <<101, 114, 114, 111, 114>>

\* "Failed to extract CRM data" (line 117)
ERR_CRM_TEXT ==
  <<70, 97, 105, 108, 101, 100, 32, 116, 111, 32, 101, 120, 116, 114, 97, 99, 116, 32, 67, 82, 77, 32, 100, 97, 116, 97>>

\* "Error in lender recommendation" (line 141)
ERR_LENDER ==
  <<69, 114, 114, 111, 114, 32, 105, 110, 32, 108, 101, 110, 100, 101, 114, 32, 114, 101, 99, 111, 109, 109, 101, 110, 100, 97, 116, 105, 111, 110>>

\* "Compliance check failed: " (line 66)
PFX_COMPLIANCE ==
  <<67, 111, 109, 112, 108, 105, 97, 110, 99, 101, 32, 99, 104, 101, 99, 107, 32, 102, 97, 105, 108, 101, 100, 58, 32>>

\* "Sales coaching failed: " (line 91)
PFX_SALES ==
  <<83, 97, 108, 101, 115, 32, 99, 111, 97, 99, 104, 105, 110, 103, 32, 102, 97, 105, 108, 101, 100, 58, 32>>

\* "CRM extraction failed: " (line 116)
PFX_CRM ==
  <<67, 82, 77, 32, 101, 120, 116, 114, 97, 99, 116, 105, 111, 110, 32, 102, 97, 105, 108, 101, 100, 58, 32>>

\* "Lender recommendation failed: " (line 140)
PFX_LENDER ==
  <<76, 101, 110, 100, 101, 114, 32, 114, 101, 99, 111, 109, 109, 101, 110, 100, 97, 116, 105, 111, 110, 32, 102, 97, 105, 108, 101, 100, 58, 32>>

\* "PDF generation failed: " (line 187)
PFX_PDF ==
  <<80, 68, 70, 32, 103, 101, 110, 101, 114, 97, 116, 105, 111, 110, 32, 102, 97, 105, 108, 101, 100, 58, 32>>

\* "\u26a0\ufe0f Please enter a valid OpenAI API key" (line 32)
MSG_KEY_WARNING ==
  <<9888, 65039, 32, 80, 108, 101, 97, 115, 101, 32, 101, 110, 116, 101, 114, 32, 97, 32, 118, 97, 108, 105, 100, 32, 79, 112, 101, 110, 65, 73, 32, 65, 80, 73, 32, 107, 101, 121>>

\* "\u2705 API Key validated" (line 35)
MSG_KEY_VALIDATED ==
  <<9989, 32, 65, 80, 73, 32, 75, 101, 121, 32, 118, 97, 108, 105, 100, 97, 116, 101, 100>>

\* "Please provide a valid OpenAI API key in the sidebar" (line 193)
MSG_NEED_KEY ==
  <<80, 108, 101, 97, 115, 101, 32, 112, 114, 111, 118, 105, 100, 101, 32, 97, 32, 118, 97, 108, 105, 100, 32, 79, 112, 101, 110, 65, 73, 32, 65, 80, 73, 32, 107, 101, 121, 32, 105, 110, 32, 116, 104, 101, 32, 115, 105, 100, 101, 98, 97, 114>>

\* "Please provide a longer transcript for meaningful analysis" (line 195)
MSG_NEED_TRANSCRIPT ==
  <<80, 108, 101, 97, 115, 101, 32, 112, 114, 111, 118, 105, 100, 101, 32, 97, 32, 108, 111, 110, 103, 101, 114, 32, 116, 114, 97, 110, 115, 99, 114, 105, 112, 116, 32, 102, 111, 114, 32, 109, 101, 97, 110, 105, 110, 103, 102, 117, 108, 32, 97, 110, 97, 108, 121, 115, 105, 115>>

\* "Broker Buddy Analysis Report" (line 152)
REPORT_TITLE ==
  <<66, 114, 111, 107, 101, 114, 32, 66, 117, 100, 100, 121, 32, 65, 110, 97, 108, 121, 115, 105, 115, 32, 82, 101, 112, 111, 114, 116>>

\* "Compliance Review" (line 159)
TITLE_COMPLIANCE ==
  <<67, 111, 109, 112, 108, 105, 97, 110, 99, 101, 32, 82, 101, 118, 105, 101, 119>>

\* "Sales Coaching" (line 166)
TITLE_SALES ==
  <<83, 97, 108, 101, 115, 32, 67, 111, 97, 99, 104, 105, 110, 103>>

\* "CRM Data" (line 173)
TITLE_CRM ==
  <<67, 82, 77, 32, 68, 97, 116, 97>>

\* "Lender Recommendation" (line 181)
TITLE_LENDER ==
  <<76, 101, 110, 100, 101, 114, 32, 82, 101, 99, 111, 109, 109, 101, 110, 100, 97, 116, 105, 111, 110>>

\* "N/A" (line 176)
NA ==
  <<78, 47, 65>>

\* ": " (line 176)
S_COLON_SP ==
  <<58, 32>>

\* "deposit" (line 98)
KEY_DEPOSIT ==
  <<100, 101, 112, 111, 115, 105, 116>>

\* "term" (line 99)
KEY_TERM ==
  <<116, 101, 114, 109>>

\* "annual_mileage" (line 100)
KEY_ANNUAL_MILEAGE ==
  <<97, 110, 110, 117, 97, 108, 95, 109, 105, 108, 101, 97, 103, 101>>

\* "monthly_budget" (line 101)
KEY_MONTHLY_BUDGET ==
  <<109, 111, 110, 116, 104, 108, 121, 95, 98, 117, 100, 103, 101, 116>>

\* "vehicle_type" (line 102)
KEY_VEHICLE_TYPE ==
  <<118, 101, 104, 105, 99, 108, 101, 95, 116, 121, 112, 101>>

\* "business_use" (line 103)
KEY_BUSINESS_USE ==
  <<98, 117, 115, 105, 110, 101, 115, 115, 95, 117, 115, 101>>

\* Texts of the Python runtime: str() of values, JSONDecodeError, AttributeError, UnicodeEncodeError.

\* "True"
S_TRUE ==
  <<84, 114, 117, 101>>

\* "False"
S_FALSE ==
  <<70, 97, 108, 115, 101>>

\* "None"
S_NONE ==
  <<78, 111, 110, 101>>

\* "Expecting value"
MSG_EXPECTING_VALUE ==
  <<69, 120, 112, 101, 99, 116, 105, 110, 103, 32, 118, 97, 108, 117, 101>>

\* "Expecting property name enclosed in double quotes"
MSG_EXPECTING_NAME ==
  <<69, 120, 112, 101, 99, 116, 105, 110, 103, 32, 112, 114, 111, 112, 101, 114, 116, 121, 32, 110, 97, 109, 101, 32, 101, 110, 99, 108, 111, 115, 101, 100, 32, 105, 110, 32, 100, 111, 117, 98, 108, 101, 32, 113, 117, 111, 116, 101, 115>>

\* "Expecting ':' delimiter"
MSG_EXPECTING_COLON ==
  <<69, 120, 112, 101, 99, 116, 105, 110, 103, 32, 39, 58, 39, 32, 100, 101, 108, 105, 109, 105, 116, 101, 114>>

\* "Expecting ',' delimiter"
MSG_EXPECTING_COMMA ==
  <<69, 120, 112, 101, 99, 116, 105, 110, 103, 32, 39, 44, 39, 32, 100, 101, 108, 105, 109, 105, 116, 101, 114>>

\* "Extra data"
MSG_EXTRA_DATA ==
  <<69, 120, 116, 114, 97, 32, 100, 97, 116, 97>>

\* "Unterminated string starting at"
MSG_UNTERMINATED ==
  <<85, 110, 116, 101, 114, 109, 105, 110, 97, 116, 101, 100, 32, 115, 116, 114, 105, 110, 103, 32, 115, 116, 97, 114, 116, 105, 110, 103, 32, 97, 116>>

\* "Invalid control character at"
MSG_CONTROL ==
  <<73, 110, 118, 97, 108, 105, 100, 32, 99, 111, 110, 116, 114, 111, 108, 32, 99, 104, 97, 114, 97, 99, 116, 101, 114, 32, 97, 116>>

\* ": line "
S_LINE ==
  <<58, 32, 108, 105, 110, 101, 32>>

\* " column "
S_COLUMN ==
  <<32, 99, 111, 108, 117, 109, 110, 32>>

\* " (char "
S_CHAR ==
  <<32, 40, 99, 104, 97, 114, 32>>

\* ")"
S_CLOSE ==
  <<41>>

\* "'"
MSG_NO_ITEMS_1 ==
  <<39>>

\* "' object has no attribute 'items'"
MSG_NO_ITEMS_2 ==
  <<39, 32, 111, 98, 106, 101, 99, 116, 32, 104, 97, 115, 32, 110, 111, 32, 97, 116, 116, 114, 105, 98, 117, 116, 101, 32, 39, 105, 116, 101, 109, 115, 39>>

\* "'latin-1' codec can't encode character"
MSG_LATIN1 ==
  <<39, 108, 97, 116, 105, 110, 45, 49, 39, 32, 99, 111, 100, 101, 99, 32, 99, 97, 110, 39, 116, 32, 101, 110, 99, 111, 100, 101, 32, 99, 104, 97, 114, 97, 99, 116, 101, 114>>

\* "NoneType"
TYPE_NONE ==
  <<78, 111, 110, 101, 84, 121, 112, 101>>

\* "str"
TYPE_STR ==
  <<115, 116, 114>>

\* "int"
TYPE_INT ==
  <<105, 110, 116>>

\* "bool"
TYPE_BOOL ==
  <<98, 111, 111, 108>>

\* "list"
TYPE_LIST ==
  <<108, 105, 115, 116>>

\* "dict"
TYPE_DICT ==
  <<100, 105, 99, 116>>

\* Inputs: credentials typed into the sidebar.

\* "sk-a"
KeyValid ==
  <<115, 107, 45, 97>>

\* "pk-a"
KeyWrongPrefix ==
  <<112, 107, 45, 97>>

\* "sk"
KeyShort ==
  <<115, 107>>

\* Inputs: texts a completion call can return, and the text of a provider error.

\* "OK"
TxtPlain ==
  <<79, 75>>

\* "\ud83d\udfe2 OK" (the severity marker the compliance prompt asks for, line 51)
TxtEmoji ==
  <<128994, 32, 79, 75>>

\* ""
TxtEmpty ==
  <<>>

\* "Alphera"
LenderKnown ==
  <<65, 108, 112, 104, 101, 114, 97>>

\* " Acme\n" (outside the five names, with surrounding whitespace)
LenderLoose ==
  <<32, 65, 99, 109, 101, 10>>

\* "{\"deposit\": null, \"term\": \"48\"}"
CrmExample ==
  <<123, 34, 100, 101, 112, 111, 115, 105, 116, 34, 58, 32, 110, 117, 108, 108, 44, 32, 34, 116, 101, 114, 109, 34, 58, 32, 34, 52, 56, 34, 125>>

\* "{\"deposit\": 0, \"term\": \"\", \"annual_mileage\": 8000, \"monthly_budget\": \"250\", \"vehicle_type\": \"SUV\", \"business_use\": false}"
CrmFalsy ==
  <<123, 34, 100, 101, 112, 111, 115, 105, 116, 34, 58, 32, 48, 44, 32, 34, 116, 101, 114, 109, 34, 58, 32, 34, 34, 44, 32, 34, 97, 110, 110, 117, 97, 108, 95, 109, 105, 108, 101, 97, 103, 101, 34, 58, 32, 56, 48, 48, 48, 44, 32, 34, 109, 111, 110, 116, 104, 108, 121, 95, 98, 117, 100, 103, 101, 116, 34, 58, 32, 34, 50, 53, 48, 34, 44, 32, 34, 118, 101, 104, 105, 99, 108, 101, 95, 116, 121, 112, 101, 34, 58, 32, 34, 83, 85, 86, 34, 44, 32, 34, 98, 117, 115, 105, 110, 101, 115, 115, 95, 117, 115, 101, 34, 58, 32, 102, 97, 108, 115, 101, 125>>

\* "{\"term\": 48, \"notes\": \"x\"}"
CrmExtra ==
  <<123, 34, 116, 101, 114, 109, 34, 58, 32, 52, 56, 44, 32, 34, 110, 111, 116, 101, 115, 34, 58, 32, 34, 120, 34, 125>>

\* "{}"
CrmEmptyObject ==
  <<123, 125>>

\* "[]"
CrmArray ==
  <<91, 93>>

\* "No data"
CrmProse ==
  <<78, 111, 32, 100, 97, 116, 97>>

\* "{\"term\": \"48\""
CrmTruncated ==
  <<123, 34, 116, 101, 114, 109, 34, 58, 32, 34, 52, 56, 34>>

\* "{\"error\": \"Failed to extract CRM data\"}"
CrmLikeFailure ==
  <<123, 34, 101, 114, 114, 111, 114, 34, 58, 32, 34, 70, 97, 105, 108, 101, 100, 32, 116, 111, 32, 101, 120, 116, 114, 97, 99, 116, 32, 67, 82, 77, 32, 100, 97, 116, 97, 34, 125>>

\* "Service unavailable"
MSG_API ==
  <<83, 101, 114, 118, 105, 99, 101, 32, 117, 110, 97, 118, 97, 105, 108, 97, 98, 108, 101>>

\* Lines of the exported document that the claims name.

\* "Term: 48"
TERM_48_LINE ==
  <<84, 101, 114, 109, 58, 32, 52, 56>>

\* "Deposit: N/A"
DEPOSIT_NA_LINE ==
  <<68, 101, 112, 111, 115, 105, 116, 58, 32, 78, 47, 65>>

----
\* Python values as json.loads builds them.  Every value carries the same
\* fields, so that any two values can be compared.

PyNone == [t |-> "none", s |-> <<>>, n |-> 0, b |-> FALSE, items |-> <<>>]

PyStr(s) == [t |-> "str", s |-> s, n |-> 0, b |-> FALSE, items |-> <<>>]

PyInt(n) == [t |-> "int", s |-> <<>>, n |-> n, b |-> FALSE, items |-> <<>>]

PyBool(b) == [t |-> "bool", s |-> <<>>, n |-> 0, b |-> b, items |-> <<>>]

PyList(xs) == [t |-> "list", s |-> <<>>, n |-> 0, b |-> FALSE, items |-> xs]

\* A dict is the sequence of its entries [k, v] in insertion order, keys unique.
PyDict(es) == [t |-> "dict", s |-> <<>>, n |-> 0, b |-> FALSE, items |-> es]

\* dict(pairs): a repeated key keeps its first position and takes the last value.
RECURSIVE DictOfPairs(_)
DictOfPairs(pairs) ==
  IF pairs = <<>> THEN <<>>
  ELSE LET n == Len(pairs)
           init == DictOfPairs(SubSeq(pairs, 1, n - 1))
           last == pairs[n]
       IN  IF \E i \in 1..Len(init) : init[i].k = last.k
           THEN [i \in 1..Len(init) |-> IF init[i].k = last.k THEN last ELSE init[i]]
           ELSE Append(init, last)

HasKey(d, k) == \E i \in 1..Len(d.items) : d.items[i].k = k

Get(d, k) == d.items[CHOOSE i \in 1..Len(d.items) : d.items[i].k = k].v

\* bool(value), as the `or` of line 176 takes it.
Truthy(v) ==
  CASE v.t = "none" -> FALSE
    [] v.t = "bool" -> v.b
    [] v.t = "int"  -> v.n # 0
    [] v.t = "str"  -> v.s # <<>>
    [] OTHER        -> v.items # <<>>

----
\* str helpers.

StartsWith(s, prefix) ==
  /\ Len(s) >= Len(prefix)
  /\ SubSeq(s, 1, Len(prefix)) = prefix

IsWs(c) == c \in {32, 9, 10, 13}

IsUpper(c) == c \in 65..90

IsLower(c) == c \in 97..122

IsLetter(c) == IsUpper(c) \/ IsLower(c)

IsDigit(c) == c \in 48..57

\* key.replace('_', ' ')
ReplaceUnderscore(s) == [i \in 1..Len(s) |-> IF s[i] = 95 THEN 32 ELSE s[i]]

\* str.title() on ASCII: a letter after a non-letter is upper-cased, any other letter lower-cased.
Title(s) ==
  [i \in 1..Len(s) |->
     IF ~IsLetter(s[i]) THEN s[i]
     ELSE IF i = 1 \/ ~IsLetter(s[i - 1])
          THEN (IF IsLower(s[i]) THEN s[i] - 32 ELSE s[i])
          ELSE (IF IsUpper(s[i]) THEN s[i] + 32 ELSE s[i])]

\* str(n) for an int.
RECURSIVE DecimalDigits(_)
DecimalDigits(n) ==
  IF n < 10 THEN <<48 + n>> ELSE Append(DecimalDigits(n \div 10), 48 + (n % 10))

IntToStr(n) == IF n < 0 THEN <<45>> \o DecimalDigits(0 - n) ELSE DecimalDigits(n)

\* '{value}' inside an f-string: str(value).  Containers are not formatted
\* by the inputs of this model beyond the empty ones, which line 176 replaces.
Format(v) ==
  CASE v.t = "str"  -> v.s
    [] v.t = "int"  -> IntToStr(v.n)
    [] v.t = "bool" -> IF v.b THEN S_TRUE ELSE S_FALSE
    [] v.t = "none" -> S_NONE
    [] v.t = "list" -> <<91, 93>>
    [] OTHER        -> <<123, 125>>

\* text.encode('latin-1') succeeds iff every code point fits in one byte.
Latin1Encodable(s) == \A i \in 1..Len(s) : s[i] < 256

----
\* json.loads (lines 4, 114), following json.decoder / json.scanner for the
\* grammar without fractions, exponents, \u escapes and NaN/Infinity.
\* Positions are 0-based as in Python.  A result is
\* [ok, val, end, msg]: the value and the index after it, or the
\* JSONDecodeError message and its position in `end`.

At(s, pos) == IF pos >= 0 /\ pos < Len(s) THEN s[pos + 1] ELSE -1

Good(val, end) == [ok |-> TRUE, val |-> val, end |-> end, msg |-> <<>>]

Bad(msg, pos) == [ok |-> FALSE, val |-> PyNone, end |-> pos, msg |-> msg]

RECURSIVE SkipWs(_, _)
SkipWs(s, pos) == IF IsWs(At(s, pos)) THEN SkipWs(s, pos + 1) ELSE pos

RECURSIVE DigitsEnd(_, _)
DigitsEnd(s, pos) == IF IsDigit(At(s, pos)) THEN DigitsEnd(s, pos + 1) ELSE pos

RECURSIVE DigitsValue(_, _, _)
DigitsValue(s, from, to) ==
  IF from >= to THEN 0
  ELSE DigitsValue(s, from, to - 1) * 10 + (At(s, to - 1) - 48)

\* The simple escapes of json.decoder.BACKSLASH.
Unescape(c) ==
  CASE c = 98  -> 8
    [] c = 102 -> 12
    [] c = 110 -> 10
    [] c = 114 -> 13
    [] c = 116 -> 9
    [] OTHER   -> c

\* py_scanstring(s, end): `end` is the index after the opening quote.
RECURSIVE ScanStringFrom(_, _, _, _)
ScanStringFrom(s, begin, pos, acc) ==
  LET c == At(s, pos) IN
  IF c = -1 THEN Bad(MSG_UNTERMINATED, begin)
  ELSE IF c = 34 THEN Good(PyStr(acc), pos + 1)
  ELSE IF c = 92 THEN
    IF At(s, pos + 1) = -1 THEN Bad(MSG_UNTERMINATED, begin)
    ELSE ScanStringFrom(s, begin, pos + 2, Append(acc, Unescape(At(s, pos + 1))))
  ELSE IF c < 32 THEN Bad(MSG_CONTROL, pos)
  ELSE ScanStringFrom(s, begin, pos + 1, Append(acc, c))

ScanString(s, end) == ScanStringFrom(s, end - 1, end, <<>>)

IsLiteral(s, pos, lit) ==
  /\ pos + Len(lit) <= Len(s)
  /\ SubSeq(s, pos + 1, pos + Len(lit)) = lit

RECURSIVE ScanOnce(_, _)
RECURSIVE ObjectPairs(_, _, _)
RECURSIVE ArrayItems(_, _, _)

\* JSONObject's loop: `end` is the index after the opening quote of a key.
ObjectPairs(s, end, pairs) ==
  LET key == ScanString(s, end) IN
  IF ~key.ok THEN key
  ELSE
    LET colon == SkipWs(s, key.end) IN
    IF At(s, colon) # 58 THEN Bad(MSG_EXPECTING_COLON, colon)
    ELSE
      LET value == ScanOnce(s, SkipWs(s, colon + 1)) IN
      IF ~value.ok THEN value
      ELSE
        LET more == Append(pairs, [k |-> key.val.s, v |-> value.val])
            next == SkipWs(s, value.end)
        IN
        IF At(s, next) = 125 THEN Good(PyDict(DictOfPairs(more)), next + 1)
        ELSE IF At(s, next) # 44 THEN Bad(MSG_EXPECTING_COMMA, next)
        ELSE
          LET quote == SkipWs(s, next + 1) IN
          IF At(s, quote) # 34 THEN Bad(MSG_EXPECTING_NAME, quote)
          ELSE ObjectPairs(s, quote + 1, more)

\* JSONObject(s_and_end): `end` is the index after '{'.
ParseObject(s, end) ==
  LET first == SkipWs(s, end) IN
  IF At(s, first) = 125 THEN Good(PyDict(<<>>), first + 1)
  ELSE IF At(s, first) # 34 THEN Bad(MSG_EXPECTING_NAME, first)
  ELSE ObjectPairs(s, first + 1, <<>>)

\* JSONArray's loop: `end` is the index of the next item.
ArrayItems(s, end, acc) ==
  LET value == ScanOnce(s, end) IN
  IF ~value.ok THEN value
  ELSE
    LET more == Append(acc, value.val)
        next == SkipWs(s, value.end)
    IN
    IF At(s, next) = 93 THEN Good(PyList(more), next + 1)
    ELSE IF At(s, next) # 44 THEN Bad(MSG_EXPECTING_COMMA, next)
    ELSE ArrayItems(s, SkipWs(s, next + 1), more)

\* JSONArray(s_and_end): `end` is the index after '['.
ParseArray(s, end) ==
  LET first == SkipWs(s, end) IN
  IF At(s, first) = 93 THEN Good(PyList(<<>>), first + 1)
  ELSE ArrayItems(s, first, <<>>)

\* scanner.py_make_scanner._scan_once; StopIteration(idx) is reported by
\* every caller as "Expecting value" at idx.
ScanOnce(s, idx) ==
  LET c == At(s, idx)
      digits == IF c = 45 THEN idx + 1 ELSE idx
      intEnd == IF At(s, digits) = 48 THEN digits + 1 ELSE DigitsEnd(s, digits)
  IN
  CASE c = 34 -> ScanString(s, idx + 1)
    [] c = 123 -> ParseObject(s, idx + 1)
    [] c = 91 -> ParseArray(s, idx + 1)
    [] c = 110 /\ IsLiteral(s, idx, <<110, 117, 108, 108>>) -> Good(PyNone, idx + 4)
    [] c = 116 /\ IsLiteral(s, idx, <<116, 114, 117, 101>>) -> Good(PyBool(TRUE), idx + 4)
    [] c = 102 /\ IsLiteral(s, idx, <<102, 97, 108, 115, 101>>) -> Good(PyBool(FALSE), idx + 5)
    [] (IsDigit(c) \/ c = 45) /\ intEnd > digits ->
         Good(PyInt(IF c = 45 THEN 0 - DigitsValue(s, digits, intEnd)
                    ELSE DigitsValue(s, digits, intEnd)), intEnd)
    [] OTHER -> Bad(MSG_EXPECTING_VALUE, idx)

\* JSONDecoder.decode: leading whitespace skipped, trailing text is "Extra data".
DecodeEnd(s, r) ==
  IF ~r.ok THEN r
  ELSE IF SkipWs(s, r.end) # Len(s) THEN Bad(MSG_EXTRA_DATA, SkipWs(s, r.end))
  ELSE r

JsonLoads(s) == DecodeEnd(s, ScanOnce(s, SkipWs(s, 0)))

\* str(JSONDecodeError): '%s: line %d column %d (char %d)'.
NewlinesBefore(s, pos) == Cardinality({i \in 1..pos : s[i] = 10})

LastNewlineBefore(s, pos) ==
  IF \E i \in 1..pos : s[i] = 10
  THEN (CHOOSE i \in 1..pos : s[i] = 10 /\ \A j \in (i + 1)..pos : s[j] # 10) - 1
  ELSE -1

JsonErrorText(s, r) ==
  r.msg \o S_LINE \o IntToStr(NewlinesBefore(s, r.end) + 1)
        \o S_COLUMN \o IntToStr(r.end - LastNewlineBefore(s, r.end))
        \o S_CHAR \o IntToStr(r.end) \o S_CLOSE

----
\* The script.

\* Bound of the model: how far above the threshold the pasted transcripts go.
MaxExtraLen == 1

\* len(transcript) < 500 (line 194)
MIN_TRANSCRIPT_LEN == 500

TranscriptLens == {0} \cup ((MIN_TRANSCRIPT_LEN - 1)..(MIN_TRANSCRIPT_LEN + MaxExtraLen))

Keys == {<<>>, KeyValid, KeyWrongPrefix, KeyShort}

TaskOrder == <<"compliance", "sales", "crm", "lender">>

Tasks == {TaskOrder[i] : i \in 1..Len(TaskOrder)}

TaskIndex(t) == CHOOSE i \in 1..Len(TaskOrder) : TaskOrder[i] = t

\* st.session_state.results = None (line 10)
None == [none |-> TRUE]

NoLocals == [t \in {} |-> 0]

Msg(kind, text) == [kind |-> kind, text |-> text]

\* The sidebar (lines 14, 27-35): openai.api_key is reset on every script run
\* and set again only from a key with the prefix.
Sidebar(key) ==
  IF key = <<>> THEN [key |-> <<>>, msgs |-> <<>>]
  ELSE IF ~StartsWith(key, API_KEY_PREFIX)
       THEN [key |-> <<>>, msgs |-> <<Msg("warning", MSG_KEY_WARNING)>>]
       ELSE [key |-> key, msgs |-> <<Msg("success", MSG_KEY_VALIDATED)>>]

\* Validate without the length check of line 194.
ValidateKeyOnly(key, n) ==
  IF key = <<>> \/ ~StartsWith(key, API_KEY_PREFIX) THEN "no_key" ELSE "ok"

\* The checks of the button branch (lines 192-196), in their order.
Validate(key, n) ==
  IF key = <<>> \/ ~StartsWith(key, API_KEY_PREFIX) THEN "no_key"
  ELSE IF n < MIN_TRANSCRIPT_LEN THEN "short_transcript"
  ELSE "ok"

\* ChatCompletionRequest with the lender call given the budget of the call pasted above it.
ChatCompletionRequestSameBudget(t, n, key) ==
  [api_key     |-> key,
   model       |-> "gpt-4-turbo",
   messages    |-> <<[role |-> "system", content |-> [template |-> t, transcript |-> n]]>>,
   max_tokens  |-> IF t = "crm" THEN 200 ELSE 400,
   temperature |-> CASE t = "compliance" -> "0.2"
                     [] t = "sales"      -> "0.3"
                     [] OTHER            -> "0.1"]

\* The arguments of openai.ChatCompletion.create in the four functions.  The
\* prompt is the function's f-string around the transcript.
ChatCompletionRequest(t, n, key) ==
  [api_key     |-> key,
   model       |-> "gpt-4-turbo",
   messages    |-> <<[role |-> "system", content |-> [template |-> t, transcript |-> n]]>>,
   max_tokens  |-> CASE t = "compliance" -> 400
                     [] t = "sales"      -> 400
                     [] t = "crm"        -> 200
                     [] t = "lender"     -> 50,
   temperature |-> CASE t = "compliance" -> "0.2"
                     [] t = "sales"      -> "0.3"
                     [] t = "crm"        -> "0.1"
                     [] t = "lender"     -> "0.1"]

\* What a call did: it returned response['choices'][0]['message']['content'],
\* or it raised and `text` is str(e).
Returned(text) == [raised |-> FALSE, text |-> text]

Raised(text) == [raised |-> TRUE, text |-> text]

run_compliance_check(o) ==
  IF o.raised
  THEN [value |-> ERR_COMPLIANCE, msgs |-> <<Msg("error", PFX_COMPLIANCE \o o.text)>>]
  ELSE [value |-> o.text, msgs |-> <<>>]

\* run_sales_coaching returning the failure text of the function it was copied from.
run_sales_coaching_pasted(o) ==
  IF o.raised
  THEN [value |-> ERR_COMPLIANCE, msgs |-> <<Msg("error", PFX_SALES \o o.text)>>]
  ELSE [value |-> o.text, msgs |-> <<>>]

run_sales_coaching(o) ==
  IF o.raised
  THEN [value |-> ERR_SALES, msgs |-> <<Msg("error", PFX_SALES \o o.text)>>]
  ELSE [value |-> o.text, msgs |-> <<>>]

\* {"error": "Failed to extract CRM data"} (line 117)
CrmFailure == PyDict(<<[k |-> ERR_CRM_KEY, v |-> PyStr(ERR_CRM_TEXT)]>>)

\* CrmOfJson that keeps what it can of an unparseable text: an empty record.
CrmOfJsonLenient(text, r) ==
  IF r.ok
  THEN [value |-> r.val, msgs |-> <<>>]
  ELSE [value |-> PyDict(<<>>), msgs |-> <<Msg("error", PFX_CRM \o JsonErrorText(text, r))>>]

\* Lines 114-117 once the call has returned: r is json.loads of the content.
CrmOfJson(text, r) ==
  IF r.ok
  THEN [value |-> r.val, msgs |-> <<>>]
  ELSE [value |-> CrmFailure, msgs |-> <<Msg("error", PFX_CRM \o JsonErrorText(text, r))>>]

extract_crm_data(o) ==
  IF o.raised
  THEN [value |-> CrmFailure, msgs |-> <<Msg("error", PFX_CRM \o o.text)>>]
  ELSE CrmOfJson(o.text, JsonLoads(o.text))

\* recommend_lender that rejects a label outside the five names of the prompt.
recommend_lender_strict(o) ==
  IF o.raised \/ o.text # LenderKnown
  THEN [value |-> ERR_LENDER, msgs |-> <<Msg("error", PFX_LENDER \o o.text)>>]
  ELSE [value |-> o.text, msgs |-> <<>>]

recommend_lender(o) ==
  IF o.raised
  THEN [value |-> ERR_LENDER, msgs |-> <<Msg("error", PFX_LENDER \o o.text)>>]
  ELSE [value |-> o.text, msgs |-> <<>>]

RunTask(t, o) ==
  CASE t = "compliance" -> run_compliance_check(o)
    [] t = "sales"      -> run_sales_coaching(o)
    [] t = "crm"        -> extract_crm_data(o)
    [] t = "lender"     -> recommend_lender(o)

\* StoreResults that updates the stored dict instead of replacing it, and
\* keeps a compliance text it already has.
StoreResultsMerged(old, l) ==
  IF old = None
  THEN [compliance |-> l.compliance, sales |-> l.sales, crm |-> l.crm, lender |-> l.lender]
  ELSE [compliance |-> old.compliance, sales |-> l.sales, crm |-> l.crm, lender |-> l.lender]

\* The dict assigned to st.session_state.results (lines 211-216).
StoreResults(old, l) ==
  [compliance |-> l.compliance, sales |-> l.sales, crm |-> l.crm, lender |-> l.lender]

----
\* generate_pdf (lines 144-188).  A document is its title and its sections,
\* each a heading cell and the texts of its multi_cell calls.

PdfNotCalled == [state |-> "not_called", title |-> <<>>, sections |-> <<>>]

PdfNone == [state |-> "none", title |-> <<>>, sections |-> <<>>]

PdfBytes(sections) == [state |-> "bytes", title |-> REPORT_TITLE, sections |-> sections]

TypeName(v) ==
  CASE v.t = "none" -> TYPE_NONE
    [] v.t = "str"  -> TYPE_STR
    [] v.t = "int"  -> TYPE_INT
    [] v.t = "bool" -> TYPE_BOOL
    [] v.t = "list" -> TYPE_LIST
    [] OTHER        -> TYPE_DICT

\* f"{key.replace('_', ' ').title()}: {value or 'N/A'}" (line 176)
CrmLine(e) ==
  Title(ReplaceUnderscore(e.k)) \o S_COLON_SP \o (IF Truthy(e.v) THEN Format(e.v) ELSE NA)

Sections(res) ==
  <<[title |-> TITLE_COMPLIANCE, body |-> <<res.compliance>>],
    [title |-> TITLE_SALES, body |-> <<res.sales>>],
    [title |-> TITLE_CRM, body |-> [i \in 1..Len(res.crm.items) |-> CrmLine(res.crm.items[i])]],
    [title |-> TITLE_LENDER, body |-> <<res.lender>>]>>

AllEncodable(sections) ==
  \A i \in 1..Len(sections) :
    /\ Latin1Encodable(sections[i].title)
    /\ \A j \in 1..Len(sections[i].body) : Latin1Encodable(sections[i].body[j])

generate_pdf(res) ==
  IF res.crm.t # "dict"
  THEN \* .items() of line 175 raises AttributeError
       [pdf  |-> PdfNone,
        msgs |-> <<Msg("error", PFX_PDF \o MSG_NO_ITEMS_1 \o TypeName(res.crm) \o MSG_NO_ITEMS_2)>>]
  ELSE IF ~AllEncodable(Sections(res))
  THEN \* the pages do not encode as latin-1: UnicodeEncodeError
       [pdf |-> PdfNone, msgs |-> <<Msg("error", PFX_PDF \o MSG_LATIN1)>>]
  ELSE [pdf |-> PdfBytes(Sections(res)), msgs |-> <<>>]

\* The display block (lines 229-258).
Display(res) ==
  IF res = None THEN [pdf |-> PdfNotCalled, msgs |-> <<>>] ELSE generate_pdf(res)

----
\* Inputs.

Responses(t) ==
  CASE t = "compliance" -> {TxtPlain, TxtEmoji}
    [] t = "sales"      -> {TxtPlain, TxtEmpty}
    [] t = "crm"        -> {CrmExample, CrmFalsy, CrmExtra, CrmEmptyObject, CrmArray,
                            CrmProse, CrmTruncated, CrmLikeFailure}
    [] t = "lender"     -> {LenderKnown, LenderLoose}

----
\* The state machine.  Streamlit runs the script from top to bottom on every
\* interaction; a script run without the button, or with a rejected button
\* press, is one step.  A run of the analysis blocks in each of its four
\* calls, and the provider's answer to each is a step.

Init ==
  /\ api_key = <<>>
  /\ transcript = 0
  /\ openai_api_key = <<>>
  /\ results = None
  /\ pc = "idle"
  /\ task = "none"
  /\ locals = NoLocals
  /\ calls = <<>>
  /\ responses = <<>>
  /\ messages = <<>>
  /\ status = "none"
  /\ pdf = PdfNotCalled

\* A script run in which the button is not pressed.
ScriptRun(key) ==
  LET sb == Sidebar(key)
      d  == Display(results)
  IN  /\ openai_api_key' = sb.key
      /\ messages' = sb.msgs \o d.msgs
      /\ pdf' = d.pdf
      /\ status' = "none"
      /\ locals' = NoLocals
      /\ calls' = <<>>
      /\ responses' = <<>>
      /\ UNCHANGED <<results, pc, task>>

EditApiKey(k) ==
  /\ pc = "idle"
  /\ k # api_key
  /\ api_key' = k
  /\ UNCHANGED transcript
  /\ ScriptRun(k)

EditTranscript(n) ==
  /\ pc = "idle"
  /\ n # transcript
  /\ transcript' = n
  /\ UNCHANGED api_key
  /\ ScriptRun(api_key)

\* The button is pressed (line 191).
ClickRun ==
  /\ pc = "idle"
  /\ LET sb == Sidebar(api_key)
         v  == Validate(api_key, transcript)
         d  == Display(results)
     IN  /\ openai_api_key' = sb.key
         /\ locals' = NoLocals
         /\ responses' = <<>>
         /\ UNCHANGED <<api_key, transcript, results>>
         /\ IF v = "ok"
            THEN /\ status' = "running"
                 /\ pc' = "call"
                 /\ task' = TaskOrder[1]
                 /\ calls' = <<ChatCompletionRequest(TaskOrder[1], transcript, sb.key)>>
                 /\ messages' = sb.msgs
                 /\ pdf' = PdfNotCalled
            ELSE /\ status' = "rejected"
                 /\ calls' = <<>>
                 /\ messages' = sb.msgs
                      \o <<IF v = "no_key" THEN Msg("error", MSG_NEED_KEY)
                           ELSE Msg("warning", MSG_NEED_TRANSCRIPT)>>
                      \o d.msgs
                 /\ pdf' = d.pdf
                 /\ UNCHANGED <<pc, task>>

\* The call in flight ends with outcome o and the task's function returns r:
\* the script goes on to the next call or, after the fourth, stores the
\* results and reaches the display block.
Proceed(o, r) ==
  /\ locals' = locals @@ (task :> r.value)
  /\ responses' = Append(responses, o)
  /\ UNCHANGED <<api_key, transcript, openai_api_key>>
  /\ IF TaskIndex(task) < Len(TaskOrder)
     THEN /\ task' = TaskOrder[TaskIndex(task) + 1]
          /\ calls' = Append(calls, ChatCompletionRequest(task', transcript, openai_api_key))
          /\ messages' = messages \o r.msgs
          /\ UNCHANGED <<results, pc, status, pdf>>
     ELSE /\ results' = StoreResults(results, locals')
          /\ status' = "complete"
          /\ pc' = "idle"
          /\ task' = "none"
          /\ pdf' = Display(results').pdf
          /\ messages' = messages \o r.msgs \o Display(results').msgs
          /\ UNCHANGED calls

Resolve(o) == Proceed(o, RunTask(task, o))

CallReturns(text) ==
  /\ pc = "call"
  /\ text \in Responses(task)
  /\ Resolve(Returned(text))

CallRaises ==
  /\ pc = "call"
  /\ Resolve(Raised(MSG_API))

\* No argument of ChatCompletion.create bounds the call (lines 58-63, 83-88,
\* 108-113, 132-137): with an endpoint that never answers the script stays
\* blocked in it.
CallNeverReturns ==
  /\ pc = "call"
  /\ pc' = "hung"
  /\ UNCHANGED <<api_key, transcript, openai_api_key, results, task, locals, calls,
                 responses, messages, status, pdf>>

AllTexts ==
  UNION {Responses(t) : t \in Tasks}

Next ==
  \/ \E k \in Keys : EditApiKey(k)
  \/ \E n \in TranscriptLens : EditTranscript(n)
  \/ ClickRun
  \/ \E text \in AllTexts : CallReturns(text)
  \/ CallRaises
  \/ CallNeverReturns

Spec == Init /\ [][Next]_vars

\* The script's steps are taken whenever they can be, and a provider that has
\* not stopped answering does answer.
FairSpec == Spec /\ WF_vars(Next)

----
\* Properties.

\* needle occurs in hay.
Contains(hay, needle) ==
  \E i \in 0..(Len(hay) - Len(needle)) : SubSeq(hay, i + 1, i + Len(needle)) = needle

\* str.strip(), which the spec applies to the lender text.
RECURSIVE Strip(_)
Strip(s) ==
  IF s = <<>> THEN s
  ELSE IF IsWs(s[1]) THEN Strip(Tail(s))
  ELSE IF IsWs(s[Len(s)]) THEN Strip(SubSeq(s, 1, Len(s) - 1))
  ELSE s

\* The precondition of a run, as the spec states it.
ValidTrigger ==
  /\ api_key # <<>>
  /\ StartsWith(api_key, API_KEY_PREFIX)
  /\ transcript >= MIN_TRANSCRIPT_LEN

IsValidationMessage(m) ==
  \/ m = Msg("error", MSG_NEED_KEY)
  \/ m = Msg("warning", MSG_NEED_TRANSCRIPT)

\* The outcome of the call of task t in the current script run.
Outcome(t) == responses[TaskIndex(t)]

RunComplete == status = "complete" /\ Len(responses) = Len(TaskOrder)

\* C1: a press of the button makes remote calls only if the transcript has at
\* least 500 characters and the credential is non-empty and starts with
\* 'sk-'; a press that violates either is rejected with a validation message
\* and makes no remote call at all.
C1_NoCallsUnlessValid ==
  /\ [](calls # <<>> => ValidTrigger)
  /\ [](status \in {"running", "complete"} => ValidTrigger)
  /\ [](status = "rejected" =>
          /\ ~ValidTrigger
          /\ calls = <<>>
          /\ \E i \in 1..Len(messages) : IsValidationMessage(messages[i]))
  /\ [][ClickRun /\ ~ValidTrigger => status' = "rejected" /\ calls' = <<>> /\ pc' = "idle"]_vars

\* C1 witness: a press with a valid credential and a 499-character transcript was rejected.
C1_Witness ==
  /\ status = "rejected"
  /\ api_key = KeyValid
  /\ transcript = MIN_TRANSCRIPT_LEN - 1
  /\ calls = <<>>

\* The budgets the spec gives the four calls, in the order of the tasks.
SpecMaxTokens == <<400, 400, 200, 50>>

SpecTemperature == <<"0.2", "0.3", "0.1", "0.1">>

\* C7: a valid run issues exactly four calls, one per task kind, each with one
\* system-role message holding the task's prompt around the transcript and
\* with the task's budget: compliance (400, 0.2), sales coaching (400, 0.3),
\* CRM extraction (200, 0.1), lender (50, 0.1); no call is repeated and none
\* is skipped, whatever the earlier calls did.
C7_FourCallsOnePerTask ==
  /\ Len(calls) <= Len(TaskOrder)
  /\ \A i \in 1..Len(calls) :
       /\ calls[i].messages =
            <<[role |-> "system", content |-> [template |-> TaskOrder[i], transcript |-> transcript]]>>
       /\ calls[i].max_tokens = SpecMaxTokens[i]
       /\ calls[i].temperature = SpecTemperature[i]
  /\ status = "running" => Len(calls) = Len(responses) + 1
  /\ status = "complete" => Len(calls) = Len(TaskOrder) /\ Len(responses) = Len(TaskOrder)

\* C7 witness: a run completed in which the first three calls all failed, and the lender call was still made.
C7_Witness ==
  /\ RunComplete
  /\ \A i \in 1..3 : responses[i].raised
  /\ Len(calls) = 4
  /\ calls[4].max_tokens = 50

\* C10: the stored result is at every moment either None or a record of the
\* four slots of one run: it starts as None, changes only by the one
\* assignment that follows the fourth analysis of a valid run and then holds
\* exactly that run's four values, and a rejected press leaves it as it was.
C10_ResultsReplacedWhole ==
  /\ results = None
  /\ [](results = None \/ DOMAIN results = Tasks)
  /\ [][results' # results =>
          /\ status = "running"
          /\ status' = "complete"
          /\ DOMAIN locals' = Tasks
          /\ Len(responses') = Len(TaskOrder)
          /\ DOMAIN results' = Tasks
          /\ \A t \in Tasks : results'[t] = locals'[t]]_vars
  /\ [][status' = "rejected" => results' = results]_vars

\* C10 witness: after a run stored its results, a press with a short transcript
\* was rejected and the stored results are still there and exported.
C10_Witness ==
  /\ status = "rejected"
  /\ results # None
  /\ DOMAIN results = Tasks
  /\ pdf.state = "bytes"

\* The failure value of a task's slot (lines 67, 92, 117, 141).
IsFailureValue(t, v) ==
  CASE t = "compliance" -> v = ERR_COMPLIANCE
    [] t = "sales"      -> v = ERR_SALES
    [] t = "crm"        -> v = PyDict(<<[k |-> ERR_CRM_KEY, v |-> PyStr(ERR_CRM_TEXT)]>>)
    [] t = "lender"     -> v = ERR_LENDER

\* The task's try block raised: its call failed, or (CRM) its text is not JSON.
TaskFailed(t) ==
  \/ Outcome(t).raised
  \/ t = "crm" /\ ~JsonLoads(Outcome(t).text).ok

\* C2 as stated: after a valid run all four calls were made and the slots
\* holding a failure value are exactly those of the tasks whose completion
\* call failed.
C2_FailureExactlyWhereCallFailed ==
  RunComplete =>
    /\ Len(calls) = Len(TaskOrder)
    /\ \A t \in Tasks : Outcome(t).raised <=> IsFailureValue(t, results[t])

\* C2 amended: after a valid run all four calls were made; the slot of every
\* task whose call failed, or whose CRM text does not parse as JSON, holds that
\* task's failure value, and every other slot holds the value interpreted
\* from its own response (the text as returned; the parsed JSON for CRM).
C2_FailureIsolation ==
  RunComplete =>
    /\ Len(calls) = Len(TaskOrder)
    /\ \A t \in Tasks :
         IF TaskFailed(t) THEN IsFailureValue(t, results[t])
         ELSE IF t = "crm" THEN results[t] = JsonLoads(Outcome(t).text).val
         ELSE results[t] = Outcome(t).text

\* C2 witness: only the CRM call failed, and the run completed.
C2_Witness ==
  /\ RunComplete
  /\ Outcome("crm").raised
  /\ \A t \in Tasks \ {"crm"} : ~Outcome(t).raised
  /\ results.compliance = Outcome("compliance").text
  /\ results.lender = Outcome("lender").text

CrmTextUnparseable ==
  /\ RunComplete
  /\ ~Outcome("crm").raised
  /\ ~JsonLoads(Outcome("crm").text).ok

\* C5 as stated: when the CRM call returns text that is not JSON, the CRM slot
\* is a failure value whose cause embeds the parse error.
C5_CauseEmbedsParseError ==
  CrmTextUnparseable =>
    /\ results.crm.t = "dict"
    /\ HasKey(results.crm, ERR_CRM_KEY)
    /\ Contains(Get(results.crm, ERR_CRM_KEY).s, JsonLoads(Outcome("crm").text).msg)

\* C5 amended: when the CRM call returns text that is not JSON, the CRM slot
\* is the fixed failure value {"error": "Failed to extract CRM data"}, never a
\* partly filled record; the parse error is embedded in the error message
\* shown for the run, not in the slot; the other three slots are what their
\* own calls made them.
C5_UnparseableCrmIsFailure ==
  CrmTextUnparseable =>
    /\ results.crm = PyDict(<<[k |-> ERR_CRM_KEY, v |-> PyStr(ERR_CRM_TEXT)]>>)
    /\ \E i \in 1..Len(messages) :
         /\ messages[i].kind = "error"
         /\ StartsWith(messages[i].text, PFX_CRM)
         /\ Contains(messages[i].text,
                     JsonErrorText(Outcome("crm").text, JsonLoads(Outcome("crm").text)))
    /\ results.compliance = (IF Outcome("compliance").raised THEN ERR_COMPLIANCE ELSE Outcome("compliance").text)
    /\ results.sales = (IF Outcome("sales").raised THEN ERR_SALES ELSE Outcome("sales").text)
    /\ results.lender = (IF Outcome("lender").raised THEN ERR_LENDER ELSE Outcome("lender").text)

\* C5 witness: the CRM call returned a truncated object and the run completed.
C5_Witness ==
  /\ CrmTextUnparseable
  /\ Outcome("crm").text = CrmTruncated
  /\ results.crm.t = "dict"

LenderReturned == RunComplete /\ ~Outcome("lender").raised

\* C9 as stated: the lender slot is the returned text with surrounding
\* whitespace trimmed.
C9_LenderTrimmed ==
  LenderReturned => results.lender = Strip(Outcome("lender").text)

\* C9 amended: for any text a successful lender call returns, one of the five
\* names or not, the lender slot is that text exactly as returned (not
\* trimmed), and no lender failure is reported.
C9_LenderIsRawText ==
  LenderReturned =>
    /\ results.lender = Outcome("lender").text
    /\ \A i \in 1..Len(messages) : ~StartsWith(messages[i].text, PFX_LENDER)

\* C9 witness: the lender call returned " Acme\n", a label outside the five names.
C9_Witness ==
  /\ LenderReturned
  /\ Outcome("lender").text = LenderLoose
  /\ results.lender = LenderLoose

\* C3: once a run with a valid transcript and credential has started, it
\* eventually completes with all four analyses resolved and the results
\* stored, even if the endpoint never answers one of the calls.
C3_RunTerminates ==
  (status = "running") ~>
     (status = "complete" /\ DOMAIN locals = Tasks /\ results # None)

KnownKeys ==
  <<KEY_DEPOSIT, KEY_TERM, KEY_ANNUAL_MILEAGE, KEY_MONTHLY_BUDGET, KEY_VEHICLE_TYPE, KEY_BUSINESS_USE>>

CrmReturnedObject ==
  /\ RunComplete
  /\ ~Outcome("crm").raised
  /\ JsonLoads(Outcome("crm").text).ok
  /\ JsonLoads(Outcome("crm").text).val.t = "dict"

\* The value the response provides for key k: none when k is absent or null.
Provided(parsed, k) == HasKey(parsed, k) /\ Get(parsed, k).t # "none"

\* C4: for a CRM response that is a JSON object, the stored CRM record has
\* exactly the six known keys, each holding the provided value, or the
\* unknown marker when the key is absent or null; extra keys are dropped.
C4_CrmHasExactlySixKeys ==
  CrmReturnedObject =>
    /\ results.crm.t = "dict"
    /\ Len(results.crm.items) = Len(KnownKeys)
    /\ \A i \in 1..Len(KnownKeys) :
         /\ HasKey(results.crm, KnownKeys[i])
         /\ Get(results.crm, KnownKeys[i]) =
              (IF Provided(JsonLoads(Outcome("crm").text).val, KnownKeys[i])
               THEN Get(JsonLoads(Outcome("crm").text).val, KnownKeys[i])
               ELSE PyNone)

SpecSectionTitles == <<TITLE_COMPLIANCE, TITLE_SALES, TITLE_CRM, TITLE_LENDER>>

\* C6: for every stored result the export yields a document, with exactly the
\* sections Compliance Review, Sales Coaching, CRM Data, Lender
\* Recommendation in that order, each with non-empty content.
C6_ExportIsTotal ==
  (pc = "idle" /\ results # None) =>
    /\ pdf.state = "bytes"
    /\ Len(pdf.sections) = Len(SpecSectionTitles)
    /\ \A i \in 1..Len(pdf.sections) :
         /\ pdf.sections[i].title = SpecSectionTitles[i]
         /\ \E j \in 1..Len(pdf.sections[i].body) : pdf.sections[i].body[j] # <<>>

\* The line the spec gives the field k of the CRM section.
SpecCrmLine(parsed, k) ==
  Title(ReplaceUnderscore(k)) \o S_COLON_SP
    \o (IF Provided(parsed, k) THEN Format(Get(parsed, k)) ELSE NA)

\* C8: in the exported CRM Data section each of the six fields is one line
\* 'Label: value', the value being the provided one whenever one was provided
\* (false, 0 and the empty string included) and 'N/A' exactly when the field
\* is absent or null; the response {"deposit": null, "term": "48"} gives the
\* lines 'Term: 48' and 'Deposit: N/A'.
C8_CrmLinesShowProvidedValues ==
  (CrmReturnedObject /\ pdf.state = "bytes") =>
    /\ Len(pdf.sections[3].body) = Len(KnownKeys)
    /\ \A i \in 1..Len(KnownKeys) :
         \E j \in 1..Len(pdf.sections[3].body) :
           pdf.sections[3].body[j] = SpecCrmLine(JsonLoads(Outcome("crm").text).val, KnownKeys[i])
    /\ Outcome("crm").text = CrmExample =>
         /\ \E j \in 1..Len(pdf.sections[3].body) : pdf.sections[3].body[j] = TERM_48_LINE
         /\ \E j \in 1..Len(pdf.sections[3].body) : pdf.sections[3].body[j] = DEPOSIT_NA_LINE

====
